---- MODULE Spec2Model ----
(***************************************************************************)
(* Model of the e-Fuse bring-up core of the ES3 bridge boot ROM            *)
(* (src/chips/es3tsb/src/es3_efuse.c), production build (no _SIMULATION).  *)
(*                                                                         *)
(* Memory is modelled as sequences of bytes (0..255), 1-based. A 32-bit    *)
(* word is a pair <<hi, lo>> of 16-bit halves so that every operation      *)
(* keeps its 32-bit width. Word loads and stores are little-endian, as on  *)
(* the Cortex-M3 the boot ROM runs on.                                     *)
(***************************************************************************)
EXTENDS Integers, Sequences, FiniteSets, TLC

(***************************************************************************)
(* Bit-level arithmetic                                                    *)
(***************************************************************************)
RECURSIVE BitAnd(_, _)
BitAnd(a, b) ==
    IF a = 0 \/ b = 0 THEN 0
    ELSE (a % 2) * (b % 2) + 2 * BitAnd(a \div 2, b \div 2)

RECURSIVE BitXor(_, _)
BitXor(a, b) ==
    IF a = 0 THEN b
    ELSE IF b = 0 THEN a
    ELSE ((a + b) % 2) + 2 * BitXor(a \div 2, b \div 2)

Pow2(k) == CASE k = 0 -> 1 [] k = 1 -> 2 [] k = 2 -> 4 [] k = 4 -> 16
             [] k = 8 -> 256 [] k = 12 -> 4096 [] k = 14 -> 16384
             [] k = 15 -> 32768 [] k = 16 -> 65536

\* uint32_t operations on <<hi, lo>> pairs
And32(a, b) == <<BitAnd(a[1], b[1]), BitAnd(a[2], b[2])>>
Xor32(a, b) == <<BitXor(a[1], b[1]), BitXor(a[2], b[2])>>
Shr32(a, k) ==
    IF k = 16 THEN <<0, a[1]>>
    ELSE <<a[1] \div Pow2(k),
           (a[2] \div Pow2(k)) + (a[1] % Pow2(k)) * Pow2(16 - k)>>
Add32(a, b) ==
    <<(a[1] + b[1] + ((a[2] + b[2]) \div 65536)) % 65536, (a[2] + b[2]) % 65536>>
\* conversion of a uint32_t to int (the values converted here are small)
AsInt(a) == a[1] * 65536 + a[2]

\* *(uint32_t *)(buf + off): the four bytes at 1-based position p
Load32(buf, p) == <<buf[p + 3] * 256 + buf[p + 2], buf[p + 1] * 256 + buf[p]>>
\* the four bytes of a uint32_t object in memory
Store32(w) == <<w[2] % 256, w[2] \div 256, w[1] % 256, w[1] \div 256>>

Rep(n, b) == [i \in 1..n |-> b]
Take(s, n) == SubSeq(s, 1, n)

(***************************************************************************)
(* Masks used by count_ones                                                *)
(***************************************************************************)
MASK8_1S == 85
MASK8_2S == 51
MASK8_4S == 15
MASK32_1S == <<21845, 21845>>
MASK32_2S == <<13107, 13107>>
MASK32_4S == <<3855, 3855>>
MASK32_8S == <<255, 255>>
MASK32_16S == <<0, 65535>>

IMS_MEANINGFUL_LENGTH == 32
TSB_ISAA_NUM_IMS_BYTES == 35
HASH_DIGEST_SIZE == 32

(***************************************************************************)
(* count_ones: 4-byte chunks as far as possible, then one byte at a time   *)
(***************************************************************************)
\* body of the chunk loop: the bit count of one 32-bit word. Each assignment
\* to x32 is one binding, innermost first, so that a value is computed once.
PopWord(x0) ==
    LET Only(S) == CHOOSE r \in S : TRUE
    IN  Only(
        {AsInt(x5) :
         x5 \in {And32(Add32(x4, Shr32(x4, 16)), MASK32_16S) :
         x4 \in {Add32(And32(x3, MASK32_8S), And32(Shr32(x3, 8), MASK32_8S)) :
         x3 \in {Add32(And32(x2, MASK32_4S), And32(Shr32(x2, 4), MASK32_4S)) :
         x2 \in {Add32(And32(x1, MASK32_2S), And32(Shr32(x1, 2), MASK32_2S)) :
         x1 \in {Add32(And32(x0, MASK32_1S), And32(Shr32(x0, 1), MASK32_1S))
                }}}}}})

\* body of the byte loop: the bit count of one uint8_t
PopByte(x0) ==
    LET x1 == (x0 - BitAnd(x0 \div 2, MASK8_1S)) % 256
        x2 == (BitAnd(x1, MASK8_2S) + BitAnd(x1 \div 4, MASK8_2S)) % 256
        x3 == BitAnd((x2 + (x2 \div 16)) % 256, MASK8_4S)
    IN  x3

RECURSIVE CountBytes(_, _, _, _)
CountBytes(buf, p, len, count) ==
    IF len > 0
    THEN CountBytes(buf, p + 1, len - 1, count + PopByte(buf[p]))
    ELSE count

\* a chunk loop that forgets the bytes left after the last whole word
RECURSIVE CountWordsNoTail(_, _, _, _)
CountWordsNoTail(buf, p, len, count) ==
    IF len >= 4
    THEN CountWordsNoTail(buf, p + 4, len - 4, count + PopWord(Load32(buf, p)))
    ELSE count

RECURSIVE CountWords(_, _, _, _)
CountWords(buf, p, len, count) ==
    IF len >= 4
    THEN CountWords(buf, p + 4, len - 4, count + PopWord(Load32(buf, p)))
    ELSE CountBytes(buf, p, len, count)

count_ones(buf, len) == CountWords(buf, 1, len, 0)

\* a validator that also accepts the all-ones pattern
valid_hamming_weight_or_full(buf, len) ==
    LET count == count_ones(buf, len)
    IN  (count = 0) \/ (count = ((len * 8) \div 2)) \/ (count = len * 8)

\* a validator that accepts every count up to half of the bits
valid_hamming_weight_up_to_half(buf, len) ==
    LET count == count_ones(buf, len)
    IN  count <= ((len * 8) \div 2)

valid_hamming_weight(buf, len) ==
    LET count == count_ones(buf, len)
    IN  (count = 0) \/ (count = ((len * 8) \div 2))

(***************************************************************************)
(* is_buf_const: word loop while more than 4 bytes remain, then byte loop  *)
(***************************************************************************)
\* a byte loop that stops one byte early
RECURSIVE ConstBytesSkipLast(_, _, _, _)
ConstBytesSkipLast(buf, p, size, val) ==
    IF size > 1
    THEN IF buf[p] # val THEN FALSE
         ELSE ConstBytesSkipLast(buf, p + 1, size - 1, val)
    ELSE TRUE

RECURSIVE ConstBytes(_, _, _, _)
ConstBytes(buf, p, size, val) ==
    IF size > 0
    THEN IF buf[p] # val THEN FALSE ELSE ConstBytes(buf, p + 1, size - 1, val)
    ELSE TRUE

RECURSIVE ConstWords(_, _, _, _, _)
ConstWords(buf, p, size, val, val32) ==
    IF size > 4
    THEN IF Load32(buf, p) # val32 THEN FALSE
         ELSE ConstWords(buf, p + 4, size - 4, val, val32)
    ELSE ConstBytes(buf, p, size, val)

\* a word loop that is not followed by the byte loop
RECURSIVE ConstWordsNoTail(_, _, _, _)
ConstWordsNoTail(buf, p, size, val32) ==
    IF size > 4
    THEN IF Load32(buf, p) # val32 THEN FALSE
         ELSE ConstWordsNoTail(buf, p + 4, size - 4, val32)
    ELSE TRUE

is_buf_const_no_tail(buf, size, val) ==
    ConstWordsNoTail(buf, 1, size, <<val * 256 + val, val * 256 + val>>)

is_buf_const(buf, size, val) ==
    ConstWords(buf, 1, size, val, <<val * 256 + val, val * 256 + val>>)

(***************************************************************************)
(* Collaborators: diagnostics and the hash primitive                       *)
(***************************************************************************)
BRE_OK == "BRE_OK"
BRE_EFUSE_ECC == "BRE_EFUSE_ECC"
BRE_EFUSE_BAD_ARA_VID == "BRE_EFUSE_BAD_ARA_VID"
BRE_EFUSE_BAD_ARA_PID == "BRE_EFUSE_BAD_ARA_PID"
BRE_EFUSE_BAD_IMS == "BRE_EFUSE_BAD_IMS"
BRE_EFUSE_ENDPOINT_ID_WRITE == "BRE_EFUSE_ENDPOINT_ID_WRITE"
\* a code left in the slot by an earlier stage of the boot sequence
BRE_EARLIER == "BRE_EARLIER"

DME_DDBL2_ENDPOINTID_L == "DME_DDBL2_ENDPOINTID_L"
DME_DDBL2_ENDPOINTID_H == "DME_DDBL2_ENDPOINTID_H"
ATTR_LOCAL == "ATTR_LOCAL"

\* the ECC-error bit of the status word returned by tsb_get_eccerror
TSB_ECCERROR_ECC_ERROR == 1

\* set_last_error(code): the new content of the LastError slot
set_last_error(cur, code) == code

\* A byte handed to the hash primitive or held in a digest buffer is either a
\* literal byte (d = 0, i = its value) or byte i of the d-th digest finalized
\* in this run (d >= 1). The hash primitive is opaque: digest d stands for
\* Hash(digests[d]).
Lit(b) == [d |-> 0, i |-> b]
LitBytes(s) == [k \in 1..Len(s) |-> Lit(s[k])]
DigestBuf(n) == [k \in 1..HASH_DIGEST_SIZE |-> [d |-> n, i |-> k - 1]]

\* hash context: open flag and the bytes fed so far
hash_start(h) == [open |-> TRUE, ctx |-> <<>>]
\* hash_update(data, datalen): datalen counts bytes
hash_update(h, data, datalen) == [h EXCEPT !.ctx = @ \o Take(data, datalen)]
hash_final(h) == [open |-> FALSE, ctx |-> <<>>]

(***************************************************************************)
(* Inputs: fuse contents and collaborator results                          *)
(***************************************************************************)
EccValues == {0, 1, 2, 3}
IdValues ==
    { <<0, 0, 0, 0>>,             \* unset
      <<255, 255, 0, 0>>,         \* 16 bits
      <<165, 90, 60, 195>>,       \* 16 bits, spread over all bytes
      <<7, 0, 0, 0>>,             \* 3 bits
      <<255, 255, 255, 255>> }    \* 32 bits
ImsValues ==
    { Rep(35, 0),                                        \* not provisioned
      Rep(32, 0) \o <<255, 1, 0>>,                       \* only bytes past 32 set
      Rep(32, 15) \o Rep(3, 0),                          \* 128 bits
      Rep(16, 255) \o Rep(19, 0),                        \* 128 bits
      [k \in 1..35 |-> IF k > 32 THEN 0
                       ELSE IF k % 4 = 1 THEN 240
                       ELSE IF k % 4 = 2 THEN 15
                       ELSE IF k % 4 = 3 THEN 60 ELSE 195],  \* 128 bits
      Rep(32, 1) \o Rep(3, 0),                           \* 32 bits
      Rep(35, 255),                                      \* 256 bits
      Rep(31, 0) \o <<128>> \o Rep(3, 0),                \* 1 bit, last byte
      Rep(28, 0) \o <<0, 1, 0, 0>> \o Rep(3, 0) }        \* 1 bit, last word
UrcValues == {0, 1, 22}
ErrorsAtEntry == {BRE_OK, BRE_EARLIER}

VARIABLES
    fuse_ecc, fuse_vid, fuse_pid, fuse_ims,   \* e-Fuse contents
    LastError,                                 \* the shared error slot
    pc, ret,                                   \* position in efuse_init, result
    ara_vid, ara_pid, ims_value,               \* globals written by the core
    endpoint_id, have_endpoint_id,             \* efuse_init / get_endpoint_id
    Y1, Z0, EP_UID,                            \* digest buffers
    hash, digests,                             \* hash primitive
    calls, attr_writes, set_errors,            \* history of collaborator calls
    entry_error,                               \* LastError when the run began
    arg_buf, arg_len,                          \* arguments of a helper call
    called, res_count, buf_after,              \* its result and the buffer after
    arg_val,                                   \* third argument of is_buf_const
    called_valid, res_valid,                   \* valid_hamming_weight call
    called_const, res_const,                   \* is_buf_const call
    sec_a, sec_b, id_a, id_b, derived,         \* two runs of the derivation
    ims_access, cms_access,                    \* hardware access to IMS and CMS
    rig_calls, init_calls                      \* calls made by the boot sequence

vars == <<fuse_ecc, fuse_vid, fuse_pid, fuse_ims, LastError, pc, ret,
          ara_vid, ara_pid, ims_value, endpoint_id, have_endpoint_id,
          Y1, Z0, EP_UID, hash, digests, calls, attr_writes, set_errors,
          entry_error, arg_buf, arg_len, called, res_count, buf_after,
          arg_val, called_valid, res_valid, called_const, res_const,
          sec_a, sec_b, id_a, id_b, derived,
          ims_access, cms_access, rig_calls, init_calls>>

checkvars == <<arg_val, called_valid, res_valid, called_const, res_const>>
derivevars == <<sec_a, sec_b, id_a, id_b, derived>>
accessvars == <<ims_access, cms_access>>
bootvars == <<rig_calls, init_calls>>
helpervars == <<arg_buf, arg_len, called, res_count, buf_after, checkvars,
                derivevars, accessvars, bootvars>>

\* no valid_hamming_weight or is_buf_const call under way
CheckIdle ==
    /\ arg_val = 0
    /\ called_valid = FALSE
    /\ res_valid = FALSE
    /\ called_const = FALSE
    /\ res_const = FALSE

\* no stand-alone derivation under way
DeriveIdle ==
    /\ sec_a = <<>>
    /\ sec_b = <<>>
    /\ id_a = <<>>
    /\ id_b = <<>>
    /\ derived = {}

\* the chip before efuse_rig_for_untrusted: IMS and CMS readable
BootIdle ==
    /\ ims_access = TRUE
    /\ cms_access = TRUE
    /\ rig_calls = 0
    /\ init_calls = 0
inputs == <<fuse_ecc, fuse_vid, fuse_pid, fuse_ims, helpervars>>
hashvars == <<Y1, Z0, EP_UID, hash, digests>>

Init ==
    /\ fuse_ecc \in EccValues
    /\ fuse_vid \in IdValues
    /\ fuse_pid \in IdValues
    /\ fuse_ims \in ImsValues
    /\ LastError \in ErrorsAtEntry
    /\ pc = "idle"
    /\ ret = 0
    /\ ara_vid = Rep(4, 0)
    /\ ara_pid = Rep(4, 0)
    /\ ims_value = Rep(TSB_ISAA_NUM_IMS_BYTES, 0)
    /\ endpoint_id = <<>>
    /\ have_endpoint_id = FALSE
    /\ Y1 = <<>>
    /\ Z0 = <<>>
    /\ EP_UID = <<>>
    /\ hash = [open |-> FALSE, ctx |-> <<>>]
    /\ digests = <<>>
    /\ calls = <<>>
    /\ attr_writes = <<>>
    /\ set_errors = <<>>
    /\ entry_error = BRE_OK
    /\ arg_buf = <<>>
    /\ arg_len = 0
    /\ called = FALSE
    /\ res_count = 0
    /\ buf_after = <<>>
    /\ CheckIdle
    /\ DeriveIdle
    /\ BootIdle

\* set_last_error(code); return -1;
Fail(code) ==
    /\ LastError' = set_last_error(LastError, code)
    /\ set_errors' = Append(set_errors, code)
    /\ ret' = -1
    /\ pc' = "done"

\* the boot sequence calls efuse_init
EfuseInitCall ==
    /\ pc = "idle"
    /\ pc' = "ecc"
    /\ entry_error' = LastError
    /\ UNCHANGED <<inputs, LastError, ret, ara_vid, ara_pid, ims_value,
                   endpoint_id, have_endpoint_id, hashvars, calls,
                   attr_writes, set_errors>>

\* a check that tests the wrong bit of the status word
EccCheckWrongBit ==
    /\ pc = "ecc"
    /\ calls' = Append(calls, "tsb_get_eccerror")
    /\ IF BitAnd(fuse_ecc, 2) # 0
       THEN Fail(BRE_EFUSE_ECC)
       ELSE pc' = "vid" /\ UNCHANGED <<LastError, set_errors, ret>>
    /\ UNCHANGED <<inputs, ara_vid, ara_pid, ims_value, endpoint_id,
                   have_endpoint_id, hashvars, attr_writes, entry_error>>

EccCheck ==
    /\ pc = "ecc"
    /\ calls' = Append(calls, "tsb_get_eccerror")
    /\ IF BitAnd(fuse_ecc, TSB_ECCERROR_ECC_ERROR) # 0
       THEN Fail(BRE_EFUSE_ECC)
       ELSE pc' = "vid" /\ UNCHANGED <<LastError, set_errors, ret>>
    /\ UNCHANGED <<inputs, ara_vid, ara_pid, ims_value, endpoint_id,
                   have_endpoint_id, hashvars, attr_writes, entry_error>>

\* a VID check that records the error but does not return
VidCheckNoReturn ==
    /\ pc = "vid"
    /\ calls' = Append(calls, "tsb_get_vid")
    /\ ara_vid' = fuse_vid
    /\ IF ~valid_hamming_weight(ara_vid', 4)
       THEN /\ LastError' = set_last_error(LastError, BRE_EFUSE_BAD_ARA_VID)
            /\ set_errors' = Append(set_errors, BRE_EFUSE_BAD_ARA_VID)
       ELSE UNCHANGED <<LastError, set_errors>>
    /\ pc' = "pid"
    /\ UNCHANGED <<inputs, ret, ara_pid, ims_value, endpoint_id,
                   have_endpoint_id, hashvars, attr_writes, entry_error>>

VidCheck ==
    /\ pc = "vid"
    /\ calls' = Append(calls, "tsb_get_vid")
    /\ ara_vid' = fuse_vid
    /\ IF ~valid_hamming_weight(ara_vid', 4)
       THEN Fail(BRE_EFUSE_BAD_ARA_VID)
       ELSE pc' = "pid" /\ UNCHANGED <<LastError, set_errors, ret>>
    /\ UNCHANGED <<inputs, ara_pid, ims_value, endpoint_id,
                   have_endpoint_id, hashvars, attr_writes, entry_error>>

\* a PID step that reads the VID a second time first
PidCheckRereadsVid ==
    /\ pc = "pid"
    /\ calls' = calls \o <<"tsb_get_vid", "tsb_get_pid">>
    /\ ara_vid' = fuse_vid
    /\ ara_pid' = fuse_pid
    /\ IF ~valid_hamming_weight(ara_pid', 4)
       THEN Fail(BRE_EFUSE_BAD_ARA_PID)
       ELSE pc' = "ims" /\ UNCHANGED <<LastError, set_errors, ret>>
    /\ UNCHANGED <<inputs, ims_value, endpoint_id,
                   have_endpoint_id, hashvars, attr_writes, entry_error>>

\* a PID check that reports the VID code
PidCheckVidCode ==
    /\ pc = "pid"
    /\ calls' = Append(calls, "tsb_get_pid")
    /\ ara_pid' = fuse_pid
    /\ IF ~valid_hamming_weight(ara_pid', 4)
       THEN Fail(BRE_EFUSE_BAD_ARA_VID)
       ELSE pc' = "ims" /\ UNCHANGED <<LastError, set_errors, ret>>
    /\ UNCHANGED <<inputs, ara_vid, ims_value, endpoint_id,
                   have_endpoint_id, hashvars, attr_writes, entry_error>>

PidCheck ==
    /\ pc = "pid"
    /\ calls' = Append(calls, "tsb_get_pid")
    /\ ara_pid' = fuse_pid
    /\ IF ~valid_hamming_weight(ara_pid', 4)
       THEN Fail(BRE_EFUSE_BAD_ARA_PID)
       ELSE pc' = "ims" /\ UNCHANGED <<LastError, set_errors, ret>>
    /\ UNCHANGED <<inputs, ara_vid, ims_value, endpoint_id,
                   have_endpoint_id, hashvars, attr_writes, entry_error>>

\* tsb_get_ims(buf, len): the first len bytes of the IMS fuse go to buf
tsb_get_ims(buf, len) ==
    [k \in 1..Len(buf) |-> IF k <= len THEN fuse_ims[k] ELSE buf[k]]

\* a get_endpoint_id that derives from any IMS that is not all zero
GetImsUnchecked ==
    /\ pc = "ims"
    /\ have_endpoint_id' = FALSE
    /\ endpoint_id' = LitBytes(Rep(8, 0))
    /\ calls' = Append(calls, "tsb_get_ims")
    /\ ims_value' = tsb_get_ims(ims_value, IMS_MEANINGFUL_LENGTH)
    /\ IF ~is_buf_const(ims_value', IMS_MEANINGFUL_LENGTH, 0)
       THEN pc' = "hash_y1"
       ELSE pc' = "no_id"
    /\ UNCHANGED <<inputs, LastError, ret, ara_vid, ara_pid, hashvars,
                   attr_writes, set_errors, entry_error>>

\* get_endpoint_id up to the decision on the IMS
GetIms ==
    /\ pc = "ims"
    /\ have_endpoint_id' = FALSE
    /\ endpoint_id' = LitBytes(Rep(8, 0))
    /\ calls' = Append(calls, "tsb_get_ims")
    /\ ims_value' = tsb_get_ims(ims_value, IMS_MEANINGFUL_LENGTH)
    /\ IF ~is_buf_const(ims_value', IMS_MEANINGFUL_LENGTH, 0)
       THEN IF ~valid_hamming_weight(ims_value', IMS_MEANINGFUL_LENGTH)
            THEN /\ LastError' = set_last_error(LastError, BRE_EFUSE_BAD_IMS)
                 /\ set_errors' = Append(set_errors, BRE_EFUSE_BAD_IMS)
                 /\ pc' = "no_id"
            ELSE pc' = "hash_y1" /\ UNCHANGED <<LastError, set_errors>>
       ELSE pc' = "no_id" /\ UNCHANGED <<LastError, set_errors>>
    /\ UNCHANGED <<inputs, ret, ara_vid, ara_pid, hashvars, attr_writes,
                   entry_error>>

\* a caller that treats every false return of get_endpoint_id as an error
NoEndpointIdAlwaysFail ==
    /\ pc = "no_id"
    /\ ret' = -1
    /\ pc' = "done"
    /\ UNCHANGED <<inputs, LastError, ara_vid, ara_pid, ims_value, endpoint_id,
                   have_endpoint_id, hashvars, calls, attr_writes, set_errors,
                   entry_error>>

\* a caller that does not look at the last error when there is no endpoint ID
NoEndpointIdIgnoresError ==
    /\ pc = "no_id"
    /\ ret' = 0
    /\ pc' = "done"
    /\ UNCHANGED <<inputs, LastError, ara_vid, ara_pid, ims_value, endpoint_id,
                   have_endpoint_id, hashvars, calls, attr_writes, set_errors,
                   entry_error>>

\* efuse_init after get_endpoint_id returned false
NoEndpointId ==
    /\ pc = "no_id"
    /\ ret' = IF LastError # BRE_OK THEN -1 ELSE 0
    /\ pc' = "done"
    /\ UNCHANGED <<inputs, LastError, ara_vid, ara_pid, ims_value, endpoint_id,
                   have_endpoint_id, hashvars, calls, attr_writes, set_errors,
                   entry_error>>

\* 0x3d3d3d3d
XOR_PATTERN == <<15677, 15677>>
\* 0x01010101
ONES_PATTERN == <<257, 257>>

\* a feed loop that stops after three words
RECURSIVE FeedImsThreeWords(_, _, _)
FeedImsThreeWords(h, ims, i) ==
    IF i < 3
    THEN LET temp == Xor32(Load32(ims, 4 * i + 1), XOR_PATTERN)
         IN  FeedImsThreeWords(hash_update(h, LitBytes(Store32(temp)), 1),
                               ims, i + 1)
    ELSE h

\* for (i = 0; i < 4; i++) { temp = pims[i] ^ 0x3d3d3d3d; hash_update(&temp, 1); }
RECURSIVE FeedIms(_, _, _)
FeedIms(h, ims, i) ==
    IF i < 4
    THEN LET temp == Xor32(Load32(ims, 4 * i + 1), XOR_PATTERN)
         IN  FeedIms(hash_update(h, LitBytes(Store32(temp)), 1), ims, i + 1)
    ELSE h

\* temp = 0x01010101; for (i = 0; i < 8; i++) hash_update(&temp, 1);
RECURSIVE FeedOnes(_, _)
FeedOnes(h, i) ==
    IF i < 8
    THEN FeedOnes(hash_update(h, LitBytes(Store32(ONES_PATTERN)), 1), i + 1)
    ELSE h

HashCalls(updates) ==
    <<"hash_start">> \o Rep(updates, "hash_update") \o <<"hash_final">>

\* Y1 = sha256(...)
HashY1 ==
    /\ pc = "hash_y1"
    /\ LET h == FeedIms(hash_start(hash), ims_value, 0)
       IN  /\ digests' = Append(digests, h.ctx)
           /\ hash' = hash_final(h)
           /\ Y1' = DigestBuf(Len(digests) + 1)
    /\ calls' = calls \o HashCalls(4)
    /\ pc' = "hash_z0"
    /\ UNCHANGED <<inputs, LastError, ret, ara_vid, ara_pid, ims_value,
                   endpoint_id, have_endpoint_id, Z0, EP_UID, attr_writes,
                   set_errors, entry_error>>

\* a second session that is also fed the words of the IMS
HashZ0FeedsIms ==
    /\ pc = "hash_z0"
    /\ LET h == FeedIms(hash_update(hash_start(hash), Y1, HASH_DIGEST_SIZE),
                        ims_value, 0)
       IN  /\ digests' = Append(digests, h.ctx)
           /\ hash' = hash_final(h)
           /\ Z0' = DigestBuf(Len(digests) + 1)
    /\ calls' = calls \o HashCalls(5)
    /\ pc' = "hash_ep"
    /\ UNCHANGED <<inputs, LastError, ret, ara_vid, ara_pid, ims_value,
                   endpoint_id, have_endpoint_id, Y1, EP_UID, attr_writes,
                   set_errors, entry_error>>

\* Z0 = sha256(...)
HashZ0 ==
    /\ pc = "hash_z0"
    /\ LET h == FeedOnes(hash_update(hash_start(hash), Y1, HASH_DIGEST_SIZE), 0)
       IN  /\ digests' = Append(digests, h.ctx)
           /\ hash' = hash_final(h)
           /\ Z0' = DigestBuf(Len(digests) + 1)
    /\ calls' = calls \o HashCalls(9)
    /\ pc' = "hash_ep"
    /\ UNCHANGED <<inputs, LastError, ret, ara_vid, ara_pid, ims_value,
                   endpoint_id, have_endpoint_id, Y1, EP_UID, attr_writes,
                   set_errors, entry_error>>

\* EP_UID = sha256(Z0); memcpy(endpoint_id, EP_UID, 8); return true
HashEpUid ==
    /\ pc = "hash_ep"
    /\ LET h == hash_update(hash_start(hash), Z0, HASH_DIGEST_SIZE)
       IN  /\ digests' = Append(digests, h.ctx)
           /\ hash' = hash_final(h)
           /\ EP_UID' = DigestBuf(Len(digests) + 1)
    /\ calls' = calls \o HashCalls(1)
    /\ endpoint_id' = Take(EP_UID', 8)
    /\ have_endpoint_id' = TRUE
    /\ pc' = "write_l"
    /\ UNCHANGED <<inputs, LastError, ret, ara_vid, ara_pid, ims_value,
                   Y1, Z0, attr_writes, set_errors, entry_error>>

\* the members of union large_uint, as the bytes they occupy
EndpointLow(id) == SubSeq(id, 1, 4)
\* a high half taken from the low bytes
EndpointHighFromLow(id) == SubSeq(id, 1, 4)
EndpointHigh(id) == SubSeq(id, 5, 8)

AttrWrite(attr, val, peer, scope, urc) ==
    [attr |-> attr, val |-> val, peer |-> peer, scope |-> scope, urc |-> urc]

\* a low-half write whose result is not checked
WriteLowUnchecked ==
    /\ pc = "write_l"
    /\ \E urc \in UrcValues :
          /\ calls' = Append(calls, "chip_unipro_attr_write")
          /\ attr_writes' = Append(attr_writes,
                 AttrWrite(DME_DDBL2_ENDPOINTID_L, EndpointLow(endpoint_id),
                           0, ATTR_LOCAL, urc))
          /\ pc' = "write_h"
          /\ UNCHANGED <<LastError, set_errors, ret>>
    /\ UNCHANGED <<inputs, ara_vid, ara_pid, ims_value, endpoint_id,
                   have_endpoint_id, hashvars, entry_error>>

WriteLow ==
    /\ pc = "write_l"
    /\ \E urc \in UrcValues :
          /\ calls' = Append(calls, "chip_unipro_attr_write")
          /\ attr_writes' = Append(attr_writes,
                 AttrWrite(DME_DDBL2_ENDPOINTID_L, EndpointLow(endpoint_id),
                           0, ATTR_LOCAL, urc))
          /\ IF urc # 0
             THEN Fail(BRE_EFUSE_ENDPOINT_ID_WRITE)
             ELSE pc' = "write_h" /\ UNCHANGED <<LastError, set_errors, ret>>
    /\ UNCHANGED <<inputs, ara_vid, ara_pid, ims_value, endpoint_id,
                   have_endpoint_id, hashvars, entry_error>>

\* a high-half write that goes back to the low half once when it fails
WriteHighRetry ==
    /\ pc = "write_h"
    /\ \E urc \in UrcValues :
          /\ calls' = Append(calls, "chip_unipro_attr_write")
          /\ attr_writes' = Append(attr_writes,
                 AttrWrite(DME_DDBL2_ENDPOINTID_H, EndpointHigh(endpoint_id),
                           0, ATTR_LOCAL, urc))
          /\ IF urc # 0
             THEN IF Len(attr_writes) < 3
                  THEN pc' = "write_l" /\ UNCHANGED <<LastError, set_errors, ret>>
                  ELSE Fail(BRE_EFUSE_ENDPOINT_ID_WRITE)
             ELSE /\ ret' = 0
                  /\ pc' = "done"
                  /\ UNCHANGED <<LastError, set_errors>>
    /\ UNCHANGED <<inputs, ara_vid, ara_pid, ims_value, endpoint_id,
                   have_endpoint_id, hashvars, entry_error>>

WriteHigh ==
    /\ pc = "write_h"
    /\ \E urc \in UrcValues :
          /\ calls' = Append(calls, "chip_unipro_attr_write")
          /\ attr_writes' = Append(attr_writes,
                 AttrWrite(DME_DDBL2_ENDPOINTID_H, EndpointHigh(endpoint_id),
                           0, ATTR_LOCAL, urc))
          /\ IF urc # 0
             THEN Fail(BRE_EFUSE_ENDPOINT_ID_WRITE)
             ELSE /\ ret' = 0
                  /\ pc' = "done"
                  /\ UNCHANGED <<LastError, set_errors>>
    /\ UNCHANGED <<inputs, ara_vid, ara_pid, ims_value, endpoint_id,
                   have_endpoint_id, hashvars, entry_error>>

Next ==
    \/ EfuseInitCall
    \/ EccCheck
    \/ VidCheck
    \/ PidCheck
    \/ GetIms
    \/ NoEndpointId
    \/ HashY1
    \/ HashZ0
    \/ HashEpUid
    \/ WriteLow
    \/ WriteHigh

Spec == Init /\ [][Next]_vars

\* efuse_init is one thread of straight-line code and every collaborator call
\* returns: whenever a step is possible, a step is eventually taken.
SpecLive == Init /\ [][Next]_vars /\ WF_vars(Next)

(***************************************************************************)
(* The boot sequence around the core: efuse_rig_for_untrusted, and         *)
(* efuse_init called again                                                 *)
(***************************************************************************)
MaxRigCalls == 2
MaxReinit == 1

\* tsb_disable_ims_access(), tsb_disable_cms_access(): the access flag after
tsb_disable_ims_access == FALSE
tsb_disable_cms_access == FALSE

\* What tsb_get_ims returns once IMS access is disabled is not defined by
\* this source: the read port keeps the fuse value or returns zeros.
SealedIms == {fuse_ims, Rep(TSB_ISAA_NUM_IMS_BYTES, 0)}

\* a lock function that forgets the CMS
EfuseRigForUntrustedImsOnly ==
    /\ pc \in {"idle", "done"}
    /\ rig_calls < MaxRigCalls
    /\ rig_calls' = rig_calls + 1
    /\ ims_access' = tsb_disable_ims_access
    /\ fuse_ims' \in SealedIms
    /\ UNCHANGED <<fuse_ecc, fuse_vid, fuse_pid, LastError, pc, ret, ara_vid,
                   ara_pid, ims_value, endpoint_id, have_endpoint_id,
                   hashvars, calls, attr_writes, set_errors, entry_error,
                   arg_buf, arg_len, called, res_count, buf_after, checkvars,
                   derivevars, cms_access, init_calls>>

EfuseRigForUntrusted ==
    /\ pc \in {"idle", "done"}
    /\ rig_calls < MaxRigCalls
    /\ rig_calls' = rig_calls + 1
    /\ ims_access' = tsb_disable_ims_access
    /\ cms_access' = tsb_disable_cms_access
    /\ fuse_ims' \in SealedIms
    /\ UNCHANGED <<fuse_ecc, fuse_vid, fuse_pid, LastError, pc, ret, ara_vid,
                   ara_pid, ims_value, endpoint_id, have_endpoint_id,
                   hashvars, calls, attr_writes, set_errors, entry_error,
                   arg_buf, arg_len, called, res_count, buf_after, checkvars,
                   derivevars, init_calls>>

\* efuse_init called once more: new locals, new history, same globals
EfuseInitAgain ==
    /\ pc = "done"
    /\ init_calls < MaxReinit
    /\ init_calls' = init_calls + 1
    /\ pc' = "ecc"
    /\ entry_error' = LastError
    /\ ret' = 0
    /\ endpoint_id' = <<>>
    /\ have_endpoint_id' = FALSE
    /\ Y1' = <<>>
    /\ Z0' = <<>>
    /\ EP_UID' = <<>>
    /\ digests' = <<>>
    /\ calls' = <<>>
    /\ attr_writes' = <<>>
    /\ set_errors' = <<>>
    /\ UNCHANGED <<fuse_ecc, fuse_vid, fuse_pid, fuse_ims, LastError, ara_vid,
                   ara_pid, ims_value, hash, arg_buf, arg_len, called,
                   res_count, buf_after, checkvars, derivevars, accessvars,
                   rig_calls>>

NextRig ==
    \/ Next
    \/ EfuseRigForUntrusted
    \/ EfuseInitAgain

SpecRig == Init /\ [][NextRig]_vars

(***************************************************************************)
(* Helper calls on their own: count_ones applied to arbitrary buffers      *)
(***************************************************************************)
MaxBufLen == 6
ByteSamples == {0, 1, 165, 255}
WordSamples == {0, 1, 2, 85, 128, 165, 170, 255}
CountBuffers ==
    { <<b>> : b \in 0..255 }
        \cup [1..4 -> WordSamples]
        \cup UNION { [1..n -> ByteSamples] : n \in 0..MaxBufLen }

InitCount ==
    /\ arg_buf \in CountBuffers
    /\ arg_len \in 0..Len(arg_buf)
    /\ called = FALSE
    /\ res_count = 0
    /\ buf_after = <<>>
    /\ CheckIdle
    /\ DeriveIdle
    /\ BootIdle
    /\ fuse_ecc = 0
    /\ fuse_vid = Rep(4, 0)
    /\ fuse_pid = Rep(4, 0)
    /\ fuse_ims = Rep(TSB_ISAA_NUM_IMS_BYTES, 0)
    /\ LastError = BRE_OK
    /\ pc = "off"
    /\ ret = 0
    /\ ara_vid = Rep(4, 0)
    /\ ara_pid = Rep(4, 0)
    /\ ims_value = Rep(TSB_ISAA_NUM_IMS_BYTES, 0)
    /\ endpoint_id = <<>>
    /\ have_endpoint_id = FALSE
    /\ Y1 = <<>>
    /\ Z0 = <<>>
    /\ EP_UID = <<>>
    /\ hash = [open |-> FALSE, ctx |-> <<>>]
    /\ digests = <<>>
    /\ calls = <<>>
    /\ attr_writes = <<>>
    /\ set_errors = <<>>
    /\ entry_error = BRE_OK

\* count = count_ones(buf, len); the function only reads through buf
CallCountOnes ==
    /\ pc = "off"
    /\ ~called
    /\ called' = TRUE
    /\ res_count' = count_ones(arg_buf, arg_len)
    /\ buf_after' = arg_buf
    /\ UNCHANGED <<fuse_ecc, fuse_vid, fuse_pid, fuse_ims, arg_buf, arg_len,
                   LastError, pc, ret, ara_vid, ara_pid, ims_value,
                   endpoint_id, have_endpoint_id, hashvars, calls,
                   attr_writes, set_errors, entry_error, checkvars,
                   derivevars, accessvars, bootvars>>

NextCount == CallCountOnes

SpecCount == InitCount /\ [][NextCount]_vars

(***************************************************************************)
(* valid_hamming_weight applied to the same buffers                        *)
(***************************************************************************)
CallValidHammingWeight ==
    /\ pc = "off"
    /\ ~called_valid
    /\ called_valid' = TRUE
    /\ res_valid' = valid_hamming_weight(arg_buf, arg_len)
    /\ UNCHANGED <<fuse_ecc, fuse_vid, fuse_pid, fuse_ims, arg_buf, arg_len,
                   called, res_count, buf_after, arg_val, called_const,
                   res_const, LastError, pc, ret, ara_vid, ara_pid, ims_value,
                   endpoint_id, have_endpoint_id, hashvars, calls,
                   attr_writes, set_errors, entry_error,
                   derivevars, accessvars, bootvars>>

NextWeight ==
    \/ CallValidHammingWeight
    \/ CallCountOnes

SpecWeight == InitCount /\ [][NextWeight]_vars

(***************************************************************************)
(* is_buf_const applied to constant and nearly constant buffers            *)
(***************************************************************************)
\* the core is not running: every variable of efuse_init at rest
OffState ==
    /\ fuse_ecc = 0
    /\ fuse_vid = Rep(4, 0)
    /\ fuse_pid = Rep(4, 0)
    /\ fuse_ims = Rep(TSB_ISAA_NUM_IMS_BYTES, 0)
    /\ LastError = BRE_OK
    /\ pc = "off"
    /\ ret = 0
    /\ ara_vid = Rep(4, 0)
    /\ ara_pid = Rep(4, 0)
    /\ ims_value = Rep(TSB_ISAA_NUM_IMS_BYTES, 0)
    /\ endpoint_id = <<>>
    /\ have_endpoint_id = FALSE
    /\ Y1 = <<>>
    /\ Z0 = <<>>
    /\ EP_UID = <<>>
    /\ hash = [open |-> FALSE, ctx |-> <<>>]
    /\ digests = <<>>
    /\ calls = <<>>
    /\ attr_writes = <<>>
    /\ set_errors = <<>>
    /\ entry_error = BRE_OK

ConstSamples == {0, 1, 255}
ShortBuffers == UNION { [1..n -> ConstSamples] : n \in 0..MaxBufLen }
\* buffers that take the word loop more than once, with at most one byte off
LongBuffers ==
    { Rep(n, 0) : n \in 8..13 }
        \cup { [j \in 1..n |-> IF j = k THEN 1 ELSE 0] : n \in 8..13, k \in 1..8 }
        \cup { [j \in 1..n |-> IF j = n THEN 1 ELSE 0] : n \in 8..13 }
\* buffers filled with val, and the same with one byte changed
FilledBuffers(val) ==
    { Rep(n, val) : n \in 0..5 }
        \cup { [Rep(5, val) EXCEPT ![k] = 255 - val] : k \in 1..5 }

InitConst ==
    /\ \/ arg_val \in ConstSamples /\ arg_buf \in ShortBuffers \cup LongBuffers
       \/ arg_val \in 0..255 /\ arg_buf \in FilledBuffers(arg_val)
    /\ arg_len \in 0..Len(arg_buf)
    /\ called = FALSE
    /\ res_count = 0
    /\ buf_after = <<>>
    /\ called_valid = FALSE
    /\ res_valid = FALSE
    /\ called_const = FALSE
    /\ res_const = FALSE
    /\ DeriveIdle
    /\ BootIdle
    /\ OffState

CallIsBufConst ==
    /\ pc = "off"
    /\ ~called_const
    /\ called_const' = TRUE
    /\ res_const' = is_buf_const(arg_buf, arg_len, arg_val)
    /\ UNCHANGED <<fuse_ecc, fuse_vid, fuse_pid, fuse_ims, arg_buf, arg_len,
                   called, res_count, buf_after, arg_val, called_valid,
                   res_valid, LastError, pc, ret, ara_vid, ara_pid, ims_value,
                   endpoint_id, have_endpoint_id, hashvars, calls,
                   attr_writes, set_errors, entry_error,
                   derivevars, accessvars, bootvars>>

NextConst ==
    \/ CallIsBufConst
    \/ CallCountOnes

SpecConst == InitConst /\ [][NextConst]_vars

(***************************************************************************)
(* The derivation of get_endpoint_id on its own, run on two secrets        *)
(***************************************************************************)
\* the byte streams of the three hash sessions, for the IMS bytes ims
DeriveSessions(ims) ==
    LET h0 == [open |-> FALSE, ctx |-> <<>>]
        h1 == FeedIms(hash_start(h0), ims, 0)
        h2 == FeedOnes(hash_update(hash_start(hash_final(h1)), DigestBuf(1),
                                   HASH_DIGEST_SIZE), 0)
        h3 == hash_update(hash_start(hash_final(h2)), DigestBuf(2),
                          HASH_DIGEST_SIZE)
    IN  <<h1.ctx, h2.ctx, h3.ctx>>

\* The hash primitive as a deterministic injective function: a digest is
\* named by the bytes its session was fed, digests inside them named the
\* same way.
RECURSIVE DigestTerm(_, _)
DigestTerm(sessions, n) ==
    [k \in 1..Len(sessions[n]) |->
        LET it == sessions[n][k]
        IN  IF it.d = 0
            THEN [lit |-> TRUE, i |-> it.i, src |-> <<>>]
            ELSE [lit |-> FALSE, i |-> it.i, src |-> DigestTerm(sessions, it.d)]]

\* memcpy(endpoint_id, EP_UID, 8): the first 8 bytes of the third digest
EndpointTerm(ims) ==
    [off |-> 0, len |-> 8, src |-> DigestTerm(DeriveSessions(ims), 3)]

FlipBit(sec, k, j) == [sec EXCEPT ![k] = BitXor(@, 2 ^ j)]

DeriveSecrets ==
    { Rep(32, 15),
      Rep(16, 255) \o Rep(16, 0),
      [k \in 1..32 |-> IF k % 4 = 1 THEN 240
                       ELSE IF k % 4 = 2 THEN 15
                       ELSE IF k % 4 = 3 THEN 60 ELSE 195] }

\* sec_b is sec_a, or sec_a with exactly one bit changed
InitDerive ==
    /\ sec_a \in DeriveSecrets
    /\ sec_b \in {sec_a} \cup { FlipBit(sec_a, k, j) : k \in 1..32, j \in 0..7 }
    /\ id_a = <<>>
    /\ id_b = <<>>
    /\ derived = {}
    /\ arg_buf = <<>>
    /\ arg_len = 0
    /\ called = FALSE
    /\ res_count = 0
    /\ buf_after = <<>>
    /\ CheckIdle
    /\ BootIdle
    /\ OffState

DeriveA ==
    /\ pc = "off"
    /\ "a" \notin derived
    /\ derived' = derived \cup {"a"}
    /\ id_a' = EndpointTerm(sec_a)
    /\ UNCHANGED <<fuse_ecc, fuse_vid, fuse_pid, fuse_ims, arg_buf, arg_len,
                   called, res_count, buf_after, checkvars, sec_a, sec_b, id_b,
                   LastError, pc, ret, ara_vid, ara_pid, ims_value,
                   endpoint_id, have_endpoint_id, hashvars, calls,
                   attr_writes, set_errors, entry_error, accessvars, bootvars>>

DeriveB ==
    /\ pc = "off"
    /\ "b" \notin derived
    /\ derived' = derived \cup {"b"}
    /\ id_b' = EndpointTerm(sec_b)
    /\ UNCHANGED <<fuse_ecc, fuse_vid, fuse_pid, fuse_ims, arg_buf, arg_len,
                   called, res_count, buf_after, checkvars, sec_a, sec_b, id_a,
                   LastError, pc, ret, ara_vid, ara_pid, ims_value,
                   endpoint_id, have_endpoint_id, hashvars, calls,
                   attr_writes, set_errors, entry_error, accessvars, bootvars>>

NextDerive ==
    \/ DeriveA
    \/ DeriveB

SpecDerive == InitDerive /\ [][NextDerive]_vars

(***************************************************************************)
(* Reference definitions used to state the properties                      *)
(***************************************************************************)
RECURSIVE BitsOfByte(_)
BitsOfByte(b) == IF b = 0 THEN 0 ELSE (b % 2) + BitsOfByte(b \div 2)

RECURSIVE SetBits(_)
SetBits(s) == IF s = <<>> THEN 0 ELSE BitsOfByte(Head(s)) + SetBits(Tail(s))

AllZero(s) == \A k \in DOMAIN s : s[k] = 0

EccBitSet == (fuse_ecc % 2) = 1
VidValid == SetBits(fuse_vid) \in {0, 16}
PidValid == SetBits(fuse_pid) \in {0, 16}
ImsHead == Take(fuse_ims, 32)
ImsUnset == AllZero(ImsHead)
ImsBalanced == ~ImsUnset /\ SetBits(ImsHead) = 128
ImsCorrupt == ~ImsUnset /\ SetBits(ImsHead) # 128
NoHash == digests = <<>> /\ ~hash.open /\
          \A k \in DOMAIN calls :
              calls[k] \notin {"hash_start", "hash_update", "hash_final"}
Reads(name) == Cardinality({k \in DOMAIN calls : calls[k] = name})

ReadPrefix == <<"tsb_get_eccerror", "tsb_get_vid", "tsb_get_pid", "tsb_get_ims">>
ReadHead == Take(ims_value, 32)
WritesOk == \A k \in DOMAIN attr_writes : attr_writes[k].urc = 0

(***************************************************************************)
(* C1 - fail closed: whenever efuse_init has returned 0, the ECC-error bit *)
(* was clear, the VID and the PID read had 0 or 16 set bits, the first 32  *)
(* IMS bytes read were all zero or had exactly 128 set bits, and every     *)
(* attribute write that was attempted returned 0.                          *)
(***************************************************************************)
C1_FailClosed ==
    (pc = "done" /\ ret = 0) =>
        /\ ~EccBitSet
        /\ Take(calls, 4) = ReadPrefix
        /\ ara_vid = fuse_vid /\ SetBits(ara_vid) \in {0, 16}
        /\ ara_pid = fuse_pid /\ SetBits(ara_pid) \in {0, 16}
        /\ ReadHead = ImsHead
        /\ (AllZero(ReadHead) \/ SetBits(ReadHead) = 128)
        /\ WritesOk

C1_Witness ==
    /\ pc = "done" /\ ret = 0
    /\ SetBits(ara_vid) = 16 /\ SetBits(ara_pid) = 16
    /\ SetBits(ReadHead) = 128
    /\ Len(attr_writes) = 2

(***************************************************************************)
(* C2 - when the ECC-error bit is set, the run makes no call but           *)
(* tsb_get_eccerror (no VID, PID or IMS read, no hash operation, no        *)
(* attribute write) and returns -1 with LastError = BRE_EFUSE_ECC.         *)
(***************************************************************************)
C2_EccErrorStops ==
    EccBitSet =>
        /\ pc \in {"idle", "ecc", "done"}
        /\ \A k \in DOMAIN calls : calls[k] = "tsb_get_eccerror"
        /\ NoHash
        /\ attr_writes = <<>>
        /\ (pc = "done" =>
               /\ ret = -1
               /\ LastError = BRE_EFUSE_ECC
               /\ calls = <<"tsb_get_eccerror">>)

C2_Witness ==
    /\ pc = "done" /\ fuse_ecc = 3 /\ entry_error = BRE_EARLIER
    /\ LastError = BRE_EFUSE_ECC /\ calls = <<"tsb_get_eccerror">>

(***************************************************************************)
(* C3 - with ECC clear, an invalid VID ends the run with -1 and            *)
(* BRE_EFUSE_BAD_ARA_VID before the PID is read; a valid VID with an       *)
(* invalid PID ends it with -1 and BRE_EFUSE_BAD_ARA_PID. In both cases    *)
(* the IMS is never read, nothing is hashed and no attribute is written.   *)
(***************************************************************************)
C3_IdentityOrder ==
    ~EccBitSet =>
        /\ ~VidValid =>
              /\ Reads("tsb_get_pid") = 0
              /\ Reads("tsb_get_ims") = 0
              /\ NoHash /\ attr_writes = <<>>
              /\ (pc = "done" =>
                     /\ ret = -1
                     /\ LastError = BRE_EFUSE_BAD_ARA_VID
                     /\ calls = Take(ReadPrefix, 2))
        /\ (VidValid /\ ~PidValid) =>
              /\ Reads("tsb_get_ims") = 0
              /\ NoHash /\ attr_writes = <<>>
              /\ (pc = "done" =>
                     /\ ret = -1
                     /\ LastError = BRE_EFUSE_BAD_ARA_PID
                     /\ calls = Take(ReadPrefix, 3))

C3_Witness ==
    /\ pc = "done" /\ ~EccBitSet
    /\ SetBits(fuse_vid) = 3 /\ ~PidValid
    /\ LastError = BRE_EFUSE_BAD_ARA_VID

C3_WitnessPid ==
    /\ pc = "done" /\ ~EccBitSet
    /\ VidValid /\ ~PidValid
    /\ LastError = BRE_EFUSE_BAD_ARA_PID

(***************************************************************************)
(* C4 - secret not provisioned: with ECC clear, VID and PID valid,         *)
(* LastError = BRE_OK at entry and the first 32 IMS bytes all zero, the    *)
(* run returns 0 with LastError still BRE_OK, set_last_error is never      *)
(* called, nothing is hashed and no attribute is written.                  *)
(***************************************************************************)
C4_NotProvisioned ==
    (pc # "idle" /\ ~EccBitSet /\ VidValid /\ PidValid /\ ImsUnset
        /\ entry_error = BRE_OK) =>
        /\ LastError = BRE_OK
        /\ set_errors = <<>>
        /\ NoHash
        /\ attr_writes = <<>>
        /\ (pc = "done" => ret = 0 /\ calls = ReadPrefix)

C4_Witness ==
    /\ pc = "done" /\ ret = 0 /\ ~EccBitSet /\ VidValid /\ PidValid
    /\ ImsUnset /\ entry_error = BRE_OK /\ calls = ReadPrefix

(***************************************************************************)
(* C5 - corrupt secret: with ECC clear and VID/PID valid, first 32 IMS     *)
(* bytes that are not all zero and do not have exactly 128 set bits end    *)
(* the run with -1 and BRE_EFUSE_BAD_IMS; nothing is hashed and no         *)
(* attribute is written.                                                   *)
(***************************************************************************)
C5_CorruptSecret ==
    (~EccBitSet /\ VidValid /\ PidValid /\ ImsCorrupt) =>
        /\ NoHash
        /\ attr_writes = <<>>
        /\ (pc = "done" => ret = -1 /\ LastError = BRE_EFUSE_BAD_IMS)

C5_Witness ==
    /\ pc = "done" /\ ~EccBitSet /\ VidValid /\ PidValid
    /\ SetBits(ImsHead) = 1 /\ fuse_ims[30] = 1
    /\ LastError = BRE_EFUSE_BAD_IMS /\ ret = -1

(***************************************************************************)
(* C6 - the byte streams of the three hash sessions: the first receives    *)
(* the 16 bytes IMS[i] XOR 0x3D, i = 0..15; the second the whole Y1 digest *)
(* followed by 32 bytes of 0x01; the third the Z0 digest, giving EP_UID.   *)
(***************************************************************************)
ChainY1 == LitBytes([k \in 1..16 |-> BitXor(ims_value[k], 61)])
ChainZ0 == DigestBuf(1) \o LitBytes(Rep(32, 1))
ChainEpUid == DigestBuf(2)

C6_ChainAsSpecified ==
    /\ Len(digests) >= 1 => digests[1] = ChainY1
    /\ Len(digests) >= 2 => digests[2] = ChainZ0
    /\ Len(digests) >= 3 => digests[3] = ChainEpUid /\ EP_UID = DigestBuf(3)

(***************************************************************************)
(* C7 - publication: with ECC clear, VID/PID valid, a non-zero IMS of      *)
(* exactly 128 set bits and every attribute write returning 0, the run     *)
(* returns 0 with LastError unchanged and makes exactly two writes: first  *)
(* DME_DDBL2_ENDPOINTID_L with bytes 0..3 of EP_UID, then                  *)
(* DME_DDBL2_ENDPOINTID_H with bytes 4..7, each with peer 0 and ATTR_LOCAL.*)
(***************************************************************************)
C7_Publication ==
    (pc = "done" /\ ~EccBitSet /\ VidValid /\ PidValid /\ ImsBalanced
        /\ WritesOk) =>
        /\ ret = 0
        /\ LastError = entry_error
        /\ set_errors = <<>>
        /\ Len(digests) = 3
        /\ EP_UID = DigestBuf(3)
        /\ attr_writes =
              << AttrWrite(DME_DDBL2_ENDPOINTID_L, SubSeq(EP_UID, 1, 4),
                           0, ATTR_LOCAL, 0),
                 AttrWrite(DME_DDBL2_ENDPOINTID_H, SubSeq(EP_UID, 5, 8),
                           0, ATTR_LOCAL, 0) >>

C7_Witness ==
    /\ pc = "done" /\ ret = 0 /\ ImsBalanced
    /\ Len(attr_writes) = 2 /\ WritesOk
    /\ entry_error = BRE_EARLIER /\ LastError = BRE_EARLIER

(***************************************************************************)
(* C8 - a failing endpoint-ID write is fatal, without rollback: a failing  *)
(* low write ends the run with -1 and BRE_EFUSE_ENDPOINT_ID_WRITE and the  *)
(* high write is never attempted; a failing high write after a successful  *)
(* low write ends it the same way and the low half is written only once.   *)
(***************************************************************************)
C8_WriteFailureFatal ==
    /\ (Len(attr_writes) >= 1 /\ attr_writes[1].urc # 0) =>
          /\ Len(attr_writes) = 1
          /\ pc = "done" /\ ret = -1
          /\ LastError = BRE_EFUSE_ENDPOINT_ID_WRITE
    /\ (Len(attr_writes) >= 2 /\ attr_writes[2].urc # 0) =>
          /\ Len(attr_writes) = 2
          /\ attr_writes[1].urc = 0
          /\ attr_writes[1].attr = DME_DDBL2_ENDPOINTID_L
          /\ attr_writes[2].attr = DME_DDBL2_ENDPOINTID_H
          /\ pc = "done" /\ ret = -1
          /\ LastError = BRE_EFUSE_ENDPOINT_ID_WRITE
    /\ Cardinality({k \in DOMAIN attr_writes :
                       attr_writes[k].attr = DME_DDBL2_ENDPOINTID_L}) <= 1

C8_Witness ==
    /\ pc = "done" /\ ret = -1
    /\ Len(attr_writes) = 2 /\ attr_writes[2].urc # 0
    /\ LastError = BRE_EFUSE_ENDPOINT_ID_WRITE

(***************************************************************************)
(* C9 - set_last_error is called at most once per run and never with       *)
(* BRE_OK; in a run entered with LastError = BRE_OK it is called exactly   *)
(* once when the run returns -1, with the code of the first anomaly in the *)
(* order ECC, VID, PID, IMS, attribute write, and never when it returns 0. *)
(***************************************************************************)
FirstAnomaly ==
    IF EccBitSet THEN BRE_EFUSE_ECC
    ELSE IF ~VidValid THEN BRE_EFUSE_BAD_ARA_VID
    ELSE IF ~PidValid THEN BRE_EFUSE_BAD_ARA_PID
    ELSE IF ImsCorrupt THEN BRE_EFUSE_BAD_IMS
    ELSE IF ~WritesOk THEN BRE_EFUSE_ENDPOINT_ID_WRITE
    ELSE "none"

C9_ErrorSetOnce ==
    /\ Len(set_errors) <= 1
    /\ \A k \in DOMAIN set_errors : set_errors[k] # BRE_OK
    /\ (pc = "done" /\ entry_error = BRE_OK) =>
          /\ ret = -1 => set_errors = <<FirstAnomaly>>
          /\ ret = 0 => set_errors = <<>> /\ FirstAnomaly = "none"

C9_Witness ==
    /\ pc = "done" /\ entry_error = BRE_OK /\ ret = -1
    /\ ~VidValid /\ ~PidValid /\ ImsCorrupt
    /\ set_errors = <<BRE_EFUSE_BAD_ARA_VID>>

(***************************************************************************)
(* C10 - count_ones(buf, len) returns exactly the number of set bits of    *)
(* the first len bytes of buf, for every content and every len >= 0, also  *)
(* when len is not a multiple of 4; the result lies in 0..len*8, is 0 for  *)
(* len = 0, and the buffer is left as it was.                              *)
(***************************************************************************)
C10_CountOnesExact ==
    called =>
        /\ res_count = SetBits(Take(arg_buf, arg_len))
        /\ res_count \in 0..(arg_len * 8)
        /\ (arg_len = 0 => res_count = 0)
        /\ buf_after = arg_buf

C10_Witness ==
    /\ called /\ arg_len = 6 /\ Len(arg_buf) = 6
    /\ arg_buf[6] = 165 /\ arg_buf[1] = 255
    /\ res_count >= 12

(***************************************************************************)
(* C11 - valid_hamming_weight(buf, len) is true exactly when the number of *)
(* set bits of the len bytes of buf is 0 or len*8/2; every other count,    *)
(* all bits set included, gives false.                                     *)
(***************************************************************************)
C11_HammingWeightIff ==
    called_valid =>
        /\ res_valid <=>
              SetBits(Take(arg_buf, arg_len)) \in {0, (arg_len * 8) \div 2}
        /\ called => (res_valid <=> res_count \in {0, (arg_len * 8) \div 2})
        /\ (arg_len > 0 /\ SetBits(Take(arg_buf, arg_len)) = arg_len * 8)
              => ~res_valid

C11_Witness ==
    /\ called_valid /\ res_valid /\ called
    /\ arg_len = 5 /\ res_count = 20

C11_WitnessFull ==
    /\ called_valid /\ ~res_valid
    /\ arg_len = 6 /\ SetBits(Take(arg_buf, arg_len)) = 48

(***************************************************************************)
(* C12 - is_buf_const(buf, size, val) is true exactly when each of the     *)
(* size bytes of buf equals val, for every size >= 0 and every val in      *)
(* 0..255; a buffer of zero bytes gives true for val = 0 and count_ones    *)
(* gives 0 for it.                                                         *)
(***************************************************************************)
C12_BufConstIff ==
    called_const =>
        /\ res_const <=> (\A k \in 1..arg_len : arg_buf[k] = arg_val)
        /\ (called /\ AllZero(Take(arg_buf, arg_len)) /\ arg_val = 0)
              => (res_const /\ res_count = 0)

C12_Witness ==
    /\ called_const /\ called /\ res_const /\ res_count = 0
    /\ arg_val = 0 /\ arg_len = 6

C12_WitnessWordLoop ==
    /\ called_const /\ ~res_const
    /\ arg_val = 0 /\ arg_len = 13 /\ arg_buf[13] = 1

C12_WitnessVal ==
    /\ called_const /\ ~res_const
    /\ arg_val = 200 /\ arg_len = 5 /\ arg_buf[5] = 55

(***************************************************************************)
(* C13 - derivation determinism and sensitivity, the hash primitive being  *)
(* a deterministic injective function of the bytes fed to a session.       *)
(* As claimed: identical secrets give identical endpoint IDs, and secrets  *)
(* that differ in exactly one bit of secret[0:32] give different IDs.      *)
(***************************************************************************)
BothDerived == derived = {"a", "b"}

C13_WitnessSame ==
    /\ BothDerived
    /\ sec_a[2] # sec_b[2]
    /\ id_a = id_b

(***************************************************************************)
(* C14 - once efuse_rig_for_untrusted has run, access to the IMS and to    *)
(* the CMS is disabled, and it stays disabled through every later call of  *)
(* efuse_init and efuse_rig_for_untrusted.                                 *)
(***************************************************************************)
C14_RigIrreversible ==
    rig_calls > 0 => (~ims_access /\ ~cms_access)

C14_Witness ==
    /\ rig_calls > 0 /\ init_calls > 0
    /\ pc = "write_h"
    /\ ~ims_access /\ ~cms_access

(***************************************************************************)
(* C15 - secret material is not retained beyond the call: once efuse_init  *)
(* has returned, ims_value holds no byte of the IMS and the Y1, Z0 and     *)
(* EP_UID buffers hold no digest byte.                                     *)
(***************************************************************************)
Wiped(buf) == \A k \in DOMAIN buf : buf[k] = Lit(0)

C15_SecretNotRetained ==
    pc = "done" =>
        /\ AllZero(ims_value)
        /\ Wiped(Y1) /\ Wiped(Z0) /\ Wiped(EP_UID)

(***************************************************************************)
(* C16 - the endpoint ID is derived at most once per run and only from a   *)
(* checked secret: a hash call or an endpoint-ID attribute write has       *)
(* occurred only if the IMS was read (once) and the bytes read were found  *)
(* not all zero by is_buf_const and valid by valid_hamming_weight; there   *)
(* are never more than three digests; get_endpoint_id returns true only in *)
(* that case, the ID being the first 8 bytes of the third digest, and      *)
(* otherwise it returns false with the ID set to 0.                        *)
(***************************************************************************)
ImsChecked ==
    /\ Reads("tsb_get_ims") = 1
    /\ ~is_buf_const(ims_value, IMS_MEANINGFUL_LENGTH, 0)
    /\ valid_hamming_weight(ims_value, IMS_MEANINGFUL_LENGTH)

HashFinals == Cardinality({k \in DOMAIN calls : calls[k] = "hash_final"})

C16_DerivedOnceFromChecked ==
    /\ (~NoHash \/ attr_writes # <<>>) => ImsChecked
    /\ Len(digests) <= 3 /\ HashFinals = Len(digests)
    /\ have_endpoint_id =>
           /\ ImsChecked
           /\ Len(digests) = 3
           /\ endpoint_id = Take(DigestBuf(3), 8)
    /\ pc = "no_id" =>
           /\ ~ImsChecked
           /\ ~have_endpoint_id
           /\ endpoint_id = LitBytes(Rep(8, 0))
    /\ ~have_endpoint_id => endpoint_id \in {<<>>, LitBytes(Rep(8, 0))}

C16_Witness ==
    /\ pc = "done" /\ ret = 0
    /\ have_endpoint_id
    /\ Len(attr_writes) = 2
    /\ ImsChecked

C16_WitnessFalse ==
    /\ pc = "no_id"
    /\ ~AllZero(ReadHead)
    /\ endpoint_id = LitBytes(Rep(8, 0))

(***************************************************************************)
(* C17 - three independent hash sessions: the hash calls of a run form     *)
(* consecutive groups hash_start, one or more hash_update, hash_final,     *)
(* with no hash_update or hash_final outside an open session and no        *)
(* hash_start inside one; there are exactly three groups once the ID is    *)
(* derived; the first session is fed literal bytes only, the second the    *)
(* first digest followed by bytes of the constant 0x01 only, the third the *)
(* second digest only.                                                     *)
(***************************************************************************)
HashNames == {"hash_start", "hash_update", "hash_final"}
IsHashCall(c) == c \in HashNames
HashTrace == SelectSeq(calls, IsHashCall)

\* number of complete sessions of a trace of hash calls, -1 if ill-formed
RECURSIVE SessionCount(_, _, _, _)
SessionCount(tr, open, updates, n) ==
    IF tr = <<>> THEN (IF open THEN -1 ELSE n)
    ELSE IF Head(tr) = "hash_start"
         THEN (IF open THEN -1 ELSE SessionCount(Tail(tr), TRUE, 0, n))
    ELSE IF Head(tr) = "hash_update"
         THEN (IF open THEN SessionCount(Tail(tr), TRUE, updates + 1, n)
               ELSE -1)
    ELSE IF open /\ updates > 0 THEN SessionCount(Tail(tr), FALSE, 0, n + 1)
    ELSE -1

Sessions == SessionCount(HashTrace, FALSE, 0, 0)

C17_ThreeIndependentSessions ==
    /\ Sessions = Len(digests)
    /\ ~hash.open /\ hash.ctx = <<>>
    /\ have_endpoint_id => Sessions = 3
    /\ Len(digests) >= 1 =>
           \A k \in DOMAIN digests[1] : digests[1][k].d = 0
    /\ Len(digests) >= 2 =>
           /\ Take(digests[2], HASH_DIGEST_SIZE) = DigestBuf(1)
           /\ \A k \in DOMAIN digests[2] :
                  k > HASH_DIGEST_SIZE => digests[2][k] = Lit(1)
    /\ Len(digests) >= 3 => digests[3] = DigestBuf(2)

C17_Witness ==
    /\ pc = "done" /\ have_endpoint_id
    /\ Sessions = 3
    /\ Len(digests[2]) > HASH_DIGEST_SIZE

(***************************************************************************)
(* C18 - read-once and fixed order: at every point of a run the            *)
(* collaborator calls made so far are a prefix of tsb_get_eccerror,        *)
(* tsb_get_vid, tsb_get_pid, tsb_get_ims, the three hash sessions, the     *)
(* write of ENDPOINTID_L, the write of ENDPOINTID_H; each of the four fuse *)
(* reads has happened at most once.                                        *)
(***************************************************************************)
CallOrder ==
    ReadPrefix \o HashCalls(4) \o HashCalls(9) \o HashCalls(1)
        \o <<"chip_unipro_attr_write", "chip_unipro_attr_write">>

IsPrefix(s, t) == Len(s) <= Len(t) /\ s = Take(t, Len(s))

WriteOrder == <<DME_DDBL2_ENDPOINTID_L, DME_DDBL2_ENDPOINTID_H>>

C18_ReadOnceFixedOrder ==
    /\ IsPrefix(calls, CallOrder)
    /\ \A k \in DOMAIN ReadPrefix : Reads(ReadPrefix[k]) <= 1
    /\ Len(attr_writes) <= 2
    /\ \A k \in DOMAIN attr_writes : attr_writes[k].attr = WriteOrder[k]
    /\ Reads("chip_unipro_attr_write") = Len(attr_writes)

C18_Witness ==
    /\ pc = "done"
    /\ calls = CallOrder
    /\ Len(attr_writes) = 2

C18_WitnessEarly ==
    /\ pc = "done"
    /\ calls = Take(CallOrder, 3)

(***************************************************************************)
(* C19 - termination: every run of efuse_init eventually returns, the      *)
(* value returned is 0 or -1, and every step of the run moves to a later   *)
(* step of the sequence (no retry, no loop back).                          *)
(***************************************************************************)
StepOrder ==
    <<"idle", "ecc", "vid", "pid", "ims", "no_id", "hash_y1", "hash_z0",
      "hash_ep", "write_l", "write_h", "done">>

Rank(p) == CHOOSE k \in DOMAIN StepOrder : StepOrder[k] = p

C19_Terminates ==
    /\ <>(pc = "done")
    /\ [](pc = "done" => ret \in {0, -1})
    /\ [][Rank(pc') > Rank(pc)]_vars

C19_Witness ==
    /\ pc = "done" /\ ret = -1
    /\ Len(attr_writes) = 2
    /\ attr_writes[2].urc # 0

(***************************************************************************)
(* C20 - on the not-provisioned path (ECC clear, VID and PID valid, first  *)
(* 32 IMS bytes all zero) LastError is the same when get_endpoint_id       *)
(* returns as at entry, and efuse_init returns 0 if and only if it is      *)
(* BRE_OK; with a stale error at entry it returns -1, set_last_error is    *)
(* not called, no attribute is written and LastError keeps the stale value.*)
(***************************************************************************)
NotProvisioned == ~EccBitSet /\ VidValid /\ PidValid /\ ImsUnset

C20_WitnessOk ==
    /\ NotProvisioned
    /\ pc = "done" /\ ret = 0
    /\ entry_error = BRE_OK

====
